---- MODULE Spec2Model ----
(***************************************************************************)
(* A model of tap:: DSP helpers (DspHelpers/DspHelpers.hpp).               *)
(*                                                                         *)
(* Numbers.  Type is float (MainComponent.h instantiates                   *)
(* tap::SynthWave<float> and tap::Amplitude<float>).                       *)
(*   - Meter samples are held in units of 1/2 (the integer n stands for    *)
(*     n/2), their squares in units of 1/4.  All values used are dyadic    *)
(*     and small, so the float operations on them are exact.               *)
(*   - `int` fields (Amplitude::sum, Amplitude::index) are integers, and   *)
(*     a float stored into an int is truncated toward zero.                *)
(*   - Oscillator time (currentTime, timeStep) is a binary32 float, held as  *)
(*     an integer number of 2^-27: every float in [2^-4, 2) is one, and    *)
(*     sums are rounded to 24 significant bits, ties to even.              *)
(*   - assert(...) is modelled as active (NDEBUG not defined): a failed    *)
(*     assertion aborts the process before the rest of the function runs,  *)
(*     and no call is made on an aborted process.                          *)
(***************************************************************************)
EXTENDS Integers, Sequences, FiniteSets, TLC

VARIABLES
    \* ---- process
    aborted,      \* TRUE once an assert has failed (the process is gone)
    lastOp,       \* ghost: the call that was made last, with its arguments
    \* ---- tap::Amplitude<float> (the Meter)
    peakVal,      \* Type peakVal  (units of 1/2)
    rmsVal,       \* Type rmsVal   ([sqrtOf |-> k] is std::sqrt (k))
    rmsWindow,    \* Type rmsWindow [maxWindowSize], the slots the model touches
    index,        \* int index
    sum,          \* int sum
    hist,         \* ghost: the last fixedW samples given to updateRms, newest last
    fixedW,       \* ghost: 0 no updateRms yet, w every call used w, -1 mixed
    calls,        \* ghost: updateRms calls so far modulo fixedW (0 when mixed)
    zeroStart,    \* ghost: the Meter's storage was all zero when it was created
    resetSeen,    \* ghost: reset() has been called
    maxSince,     \* ghost: max |sample| of updatePeakSignal since the last reset()
    \* ---- tap::MidSideProcessing<float>, driven by a host (units of 1/4)
    msIn,         \* the stereo pair <<left, right>> last encoded
    msCoded,      \* <<encode (0, ..), encode (1, ..)>> of msIn, or "none"
    msOut,        \* <<decode (0, ..), decode (1, ..)>> of msCoded, or "none"
    \* ---- tap::Distortion<float>
    cubicOut,     \* what processCubic returned last (units of 1/8), or "none"
    \* ---- tap::AmplitudeFade<float>
    fadeRamp,     \* Type fadeRamp [rampSize], the slots the model touches
    fadeType,     \* FadeType fadeType
    \* ---- tap::SynthWave<float> (the Oscillator)
    synthWave,    \* [currentSampleRate, currentTime, timeStep]
    out,          \* the sample the last generator call returned, or "none"
    prepares,     \* ghost: prepareToPlay calls so far: 0, 1, 2 (2 or more)
    callNo,       \* ghost: generator calls since prepareToPlay, modulo the rate
    \* ---- tap::Tremolo<float>
    tremolo,      \* [modulator, waveType, currentSampleRate, frequency]
    tremOut       \* what the last process call returned, or "none"

meterVars == <<peakVal, rmsVal, rmsWindow, index, sum, hist, fixedW, calls,
               zeroStart, resetSeen, maxSince>>
statelessVars == <<msIn, msCoded, msOut, cubicOut, fadeRamp, fadeType>>
synthVars == <<synthWave, out, prepares, callNo, tremolo, tremOut>>
vars == <<aborted, lastOp, meterVars, statelessVars, synthVars>>

(***************************************************************************)
(* Bounds of the model                                                     *)
(***************************************************************************)
\* largest in-range windowSize passed to updateRms
MaxWindow == 3

\* largest numSamplesToFade passed to buildRamp
MaxRamp == 4

\* static constexpr int maxWindowSize = 192000
maxWindowSize == 192000
\* static constexpr int rampSize = 8192
rampSize == 8192

\* samples fed to the Meter, in units of 1/2: -1, -1/2, 0, 1/2, 1
Samples == {-2, -1, 0, 1, 2}
\* what an uninitialised float may hold (units of 1/2)
Indeterminate == {-1, 0, 2}
\* windowSize arguments: in range, and the two smallest out-of-range ones
WindowSizes == (1 .. MaxWindow) \cup {maxWindowSize, maxWindowSize + 1}

Abs(x) == IF x < 0 THEN -x ELSE x
Max(a, b) == IF a < b THEN b ELSE a
\* C++ conversion of the real number n/d (d > 0) to int: toward zero
TruncDiv(n, d) == IF n >= 0 THEN n \div d ELSE -((-n) \div d)

\* the last n elements of sequence q (all of it when it is shorter)
LastN(q, n) == IF Len(q) <= n THEN q ELSE SubSeq(q, Len(q) - n + 1, Len(q))

(***************************************************************************)
(* tap::Amplitude                                                          *)
(***************************************************************************)
MeterInit ==
    /\ peakVal \in Indeterminate
    /\ rmsVal \in {[sqrtOf |-> k] : k \in {0, 1}}
    /\ rmsWindow \in [0 .. MaxWindow - 1 -> Indeterminate]
    /\ index = 0
    /\ sum = 0
    /\ hist = <<>>
    /\ fixedW = 0
    /\ calls = 0
    /\ zeroStart = (\A i \in DOMAIN rmsWindow : rmsWindow[i] = 0)
    /\ resetSeen = FALSE
    /\ maxSince = 0

\* faulty variant: the std::abs is dropped
UpdatePeakSignalNoAbs(sample) ==
    /\ ~aborted
    /\ peakVal' = Max(sample, peakVal)
    /\ maxSince' = Max(Abs(sample), maxSince)
    /\ lastOp' = [op |-> "updatePeakSignal", sample |-> sample]
    /\ UNCHANGED <<aborted, rmsVal, rmsWindow, index, sum, hist, fixedW, calls,
                   zeroStart, resetSeen, statelessVars, synthVars>>

\* peakVal = std::max (std::abs (sample), peakVal)
UpdatePeakSignal(sample) ==
    /\ ~aborted
    /\ peakVal' = Max(Abs(sample), peakVal)
    /\ maxSince' = Max(Abs(sample), maxSince)
    /\ lastOp' = [op |-> "updatePeakSignal", sample |-> sample]
    /\ UNCHANGED <<aborted, rmsVal, rmsWindow, index, sum, hist, fixedW, calls,
                   zeroStart, resetSeen, statelessVars, synthVars>>

getPeak == peakVal

\* peakVal = 0
Reset ==
    /\ ~aborted
    /\ peakVal' = 0
    /\ maxSince' = 0
    /\ resetSeen' = TRUE
    /\ lastOp' = [op |-> "reset"]
    /\ UNCHANGED <<aborted, rmsVal, rmsWindow, index, sum, hist, fixedW, calls,
                   zeroStart, statelessVars, synthVars>>

\* int sum: sum += x, x a float in units of 1/4, is sum = (int) (sum + x)
AddToSum(s, quarters) == TruncDiv(4 * s + quarters, 4)

\* for (i = 0; i < windowSize; ++i) sum += rmsWindow[i] * rmsWindow[i], from sum = s
RECURSIVE Recalculate(_, _, _, _)
Recalculate(window, i, windowSize, s) ==
    IF i >= windowSize THEN s
    ELSE Recalculate(window, i + 1, windowSize, AddToSum(s, window[i] * window[i]))

\* faulty variant: the write index wraps one call late (index > windowSize)
UpdateRmsBodyLateWrap(sample, windowSize) ==
    LET oldSignal == rmsWindow[index]
        window1 == [rmsWindow EXCEPT ![index] = sample]
        sum1 == AddToSum(sum, (sample * sample) - (oldSignal * oldSignal))
        index1 == index + 1
    IN  /\ rmsWindow' = window1
        /\ rmsVal' = [sqrtOf |-> TruncDiv(sum1, windowSize)]
        /\ IF index1 > windowSize
              THEN /\ index' = 0
                   /\ sum' = Recalculate(window1, 0, windowSize, 0)
              ELSE /\ index' = index1
                   /\ sum' = sum1
        /\ UNCHANGED aborted

\* the body of updateRms from line 74 on
UpdateRmsBody(sample, windowSize) ==
    LET oldSignal == rmsWindow[index]
        window1 == [rmsWindow EXCEPT ![index] = sample]
        sum1 == AddToSum(sum, (sample * sample) - (oldSignal * oldSignal))
        index1 == index + 1
    IN  /\ rmsWindow' = window1
        \* sum / windowSize divides two ints
        /\ rmsVal' = [sqrtOf |-> TruncDiv(sum1, windowSize)]
        /\ IF index1 >= windowSize
              THEN /\ index' = 0
                   /\ sum' = Recalculate(window1, 0, windowSize, 0)
              ELSE /\ index' = index1
                   /\ sum' = sum1
        /\ UNCHANGED aborted

\* faulty variant: the assertion admits windowSize == maxWindowSize
UpdateRmsOffByOne(sample, windowSize) ==
    /\ ~aborted
    /\ lastOp' = [op |-> "updateRms", sample |-> sample, windowSize |-> windowSize,
                  slot |-> index]
    /\ hist' = <<>>
    /\ calls' = 0
    /\ fixedW' = IF fixedW \in {0, windowSize} THEN windowSize ELSE -1
    /\ UNCHANGED <<peakVal, zeroStart, resetSeen, maxSince, statelessVars, synthVars>>
    /\ IF windowSize <= maxWindowSize
          THEN UpdateRmsBody(sample, windowSize)
          ELSE /\ aborted' = TRUE
               /\ UNCHANGED <<rmsVal, rmsWindow, index, sum>>

\* assert (windowSize < maxWindowSize), then the body
UpdateRms(sample, windowSize) ==
    /\ ~aborted
    /\ lastOp' = [op |-> "updateRms", sample |-> sample, windowSize |-> windowSize,
                  slot |-> index]
    /\ hist' = IF fixedW \in {0, windowSize} /\ windowSize <= MaxWindow
                  THEN LastN(Append(hist, sample), windowSize) ELSE <<>>
    /\ calls' = IF fixedW \in {0, windowSize} /\ windowSize <= MaxWindow
                   THEN (calls + 1) % windowSize ELSE 0
    /\ fixedW' = IF fixedW \in {0, windowSize} THEN windowSize ELSE -1
    /\ UNCHANGED <<peakVal, zeroStart, resetSeen, maxSince, statelessVars, synthVars>>
    /\ IF windowSize < maxWindowSize
          THEN UpdateRmsBody(sample, windowSize)
          ELSE /\ aborted' = TRUE
               /\ UNCHANGED <<rmsVal, rmsWindow, index, sum>>

getRms == rmsVal

(***************************************************************************)
(* tap::MidSideProcessing.  Samples are in units of 1/4; the stereo inputs *)
(* are multiples of 1/2, so that 0.5 * leftSample is exact.                *)
(***************************************************************************)
StereoSamples == {-4, -2, 0, 2, 4}

\* channel == 0 ? 0.5 * leftSample - rightSample : 0.5 * leftSample + rightSample
\* (assert (channel >= 0 && channel <= 1): the host passes 0 and 1 only)
encode(channel, leftSample, rightSample) ==
    IF channel = 0 THEN (leftSample \div 2) - rightSample
                   ELSE (leftSample \div 2) + rightSample

\* channel == 0 ? middleSample + sideSample : middleSample - sideSample
decode(channel, middleSample, sideSample) ==
    IF channel = 0 THEN middleSample + sideSample
                   ELSE middleSample - sideSample

\* the host encodes one stereo frame: both channels of encode
Encode(left, right) ==
    /\ msIn' = <<left, right>>
    /\ msCoded' = <<encode(0, left, right), encode(1, left, right)>>
    /\ msOut' = "none"
    /\ lastOp' = [op |-> "encode"]
    /\ UNCHANGED <<aborted, meterVars, synthVars, cubicOut, fadeRamp, fadeType>>

\* the host decodes the coded frame, (mid, side) = (encode 0, encode 1)
Decode ==
    /\ msCoded # "none"
    /\ msOut' = <<decode(0, msCoded[1], msCoded[2]), decode(1, msCoded[1], msCoded[2])>>
    /\ lastOp' = [op |-> "decode"]
    /\ UNCHANGED <<aborted, meterVars, synthVars, msIn, msCoded, cubicOut, fadeRamp, fadeType>>

(***************************************************************************)
(* tap::Distortion::processCubic.  The sample is in units of 1/2, its cube *)
(* and the result in units of 1/8.                                         *)
(***************************************************************************)
CubicSamples == -6 .. 6

\* sample - 1 / 3 * (sample * sample * sample):  1 / 3 divides two ints
processCubic(sample) == (4 * sample) - (1 \div 3) * (sample * sample * sample)

ProcessCubic(sample) ==
    /\ cubicOut' = processCubic(sample)
    /\ lastOp' = [op |-> "processCubic", sample |-> sample]
    /\ UNCHANGED <<aborted, meterVars, synthVars, msIn, msCoded, msOut, fadeRamp, fadeType>>

(***************************************************************************)
(* tap::AmplitudeFade::buildRamp.  curve is in units of 1/10.              *)
(***************************************************************************)
Curves == {0, 1, 10, 20}
FadeTypes == {"In", "Out"}

\* (expf (curve * x) - 1) / (expf (curve) - 1) at the two positions an int
\* i / numSamplesToFade can give: 0 / (e^c - 1) = 0 and (e^c - 1) / (e^c - 1) = 1
RampValue(curve, x) == CASE x = 0 -> 0 [] x = 1 -> 1

\* one pass of the loop body, for index i
RampAt(i, numSamplesToFade, curve) ==
    LET start == IF fadeType = "Out" THEN 1 ELSE 0
        end == IF fadeType = "Out" THEN 0 ELSE 1
        \* i / numSamplesToFade divides two ints
        x == start + (end - start) * (i \div numSamplesToFade)
    IN  RampValue(curve, x)

BuildRamp(numSamplesToFade, fadeInOrOut, curve) ==
    LET curve1 == IF curve = 0 THEN 1 ELSE curve
    IN  /\ fadeRamp' = [i \in DOMAIN fadeRamp |->
                           IF i < numSamplesToFade
                              THEN RampAt(i, numSamplesToFade, curve1)
                              ELSE fadeRamp[i]]
        /\ lastOp' = [op |-> "buildRamp", numSamplesToFade |-> numSamplesToFade,
                      fadeInOrOut |-> fadeInOrOut, curve |-> curve]
        /\ UNCHANGED <<aborted, meterVars, synthVars, msIn, msCoded, msOut, cubicOut, fadeType>>

(***************************************************************************)
(* binary32 arithmetic on the Oscillator's time, in units of 2^-27         *)
(***************************************************************************)
\* 1.0
One == 2 ^ 27

\* the integer nearest to n / d (n >= 0, d > 0), ties to the even one
RoundToEven(n, d) ==
    LET q == n \div d
        r == n % d
    IN  IF 2 * r < d THEN q
        ELSE IF 2 * r > d THEN q + 1
        ELSE IF q % 2 = 0 THEN q ELSE q + 1

\* the spacing of the floats around x >= 0 (24 significant bits)
Granule(x) ==
    IF x < 2 ^ 24 THEN 1
    ELSE IF x < 2 ^ 25 THEN 2
    ELSE IF x < 2 ^ 26 THEN 4
    ELSE IF x < 2 ^ 27 THEN 8
    ELSE IF x < 2 ^ 28 THEN 16
    ELSE 32

\* a + b in float, for a, b >= 0
FloatAdd(a, b) == Granule(a + b) * RoundToEven(a + b, Granule(a + b))

\* (float) (1 / sampleRate), sampleRate a double holding an integer
Reciprocal(sampleRate) ==
    LET r == Abs(sampleRate)
        g == Granule(One \div r)
        v == g * RoundToEven(One, r * g)
    IN  IF sampleRate = 0 THEN "inf"
        ELSE IF sampleRate > 0 THEN v ELSE -v

(***************************************************************************)
(* tap::SynthWave.  An oscillator is a record o; a generator call gives    *)
(* [ok, osc, sample]: ok is FALSE when an assertion failed.  A sample is   *)
(* kept as the expression the code evaluates: the wave, theta =            *)
(* 2 pi frequency currentTime + phaseOffset, and maxHarmonic.              *)
(***************************************************************************)
SampleRates == {-1, 0, 2, 3, 4, 8, 12}
Frequencies == {1, 20, 20000, 30000}
PhaseOffsets == {0, 1}

SynthWaveInit == [currentSampleRate |-> 0, currentTime |-> 0, timeStep |-> 0]

prepareToPlay(o, sampleRate) ==
    [o EXCEPT !.currentSampleRate = sampleRate,
              !.timeStep = Reciprocal(sampleRate)]

\* if (currentTime >= 1.0) currentTime = 0.0
ResetTime(o) == IF o.currentTime >= One THEN 0 ELSE o.currentTime

\* 2 pi frequency currentTime + phaseOffset, after the reset
Theta(o, frequency, phaseOffset) ==
    [frequency |-> frequency, time |-> ResetTime(o), phaseOffset |-> phaseOffset]

\* std::floor (currentSampleRate / (2.0f * frequency)), both positive
MaxHarmonic(o, frequency) == o.currentSampleRate \div (2 * frequency)

\* currentTime += timeStep, after the reset
Advance(o) == [o EXCEPT !.currentTime = FloatAdd(ResetTime(o), o.timeStep)]

Failed(o) == [ok |-> FALSE, osc |-> o, sample |-> "none"]

\* faulty variant: the sine generator asserts an audible frequency
processSineAudible(o, frequency, phaseOffset) ==
    IF ~(o.currentSampleRate > 0) \/ ~(frequency >= 20 /\ frequency <= 20000)
    THEN Failed(o)
    ELSE [ok |-> TRUE, osc |-> Advance(o),
          sample |-> [wave |-> "sine", theta |-> Theta(o, frequency, phaseOffset),
                      maxHarmonic |-> 1]]

\* faulty variant: the sine generator never resets its time
processSineNoReset(o, frequency, phaseOffset) ==
    IF ~(o.currentSampleRate > 0) THEN Failed(o)
    ELSE [ok |-> TRUE,
          osc |-> [o EXCEPT !.currentTime = FloatAdd(o.currentTime, o.timeStep)],
          sample |-> [wave |-> "sine",
                      theta |-> [frequency |-> frequency, time |-> o.currentTime,
                                 phaseOffset |-> phaseOffset],
                      maxHarmonic |-> 1]]

\* assert (currentSampleRate > 0); if (currentTime >= 1.0) currentTime = 0.0;
\* std::sin (2 pi frequency currentTime + phaseOffset); currentTime += timeStep
processSine(o, frequency, phaseOffset) ==
    IF ~(o.currentSampleRate > 0) THEN Failed(o)
    ELSE [ok |-> TRUE, osc |-> Advance(o),
          sample |-> [wave |-> "sine", theta |-> Theta(o, frequency, phaseOffset),
                      maxHarmonic |-> 1]]

\* faulty variant: the reset tests currentTime > 1.0
processSquareLateReset(o, frequency, phaseOffset) ==
    LET o1 == IF o.currentTime > One THEN [o EXCEPT !.currentTime = 0] ELSE o
    IN  IF ~(o.currentSampleRate > 0) THEN Failed(o)
        ELSE [ok |-> TRUE,
              osc |-> [o EXCEPT !.currentTime = FloatAdd(o1.currentTime, o.timeStep)],
              sample |-> [wave |-> "square",
                          theta |-> [frequency |-> frequency, time |-> o1.currentTime,
                                     phaseOffset |-> phaseOffset],
                          maxHarmonic |-> MaxHarmonic(o, frequency)]]

processSquare(o, frequency, phaseOffset) ==
    IF ~(o.currentSampleRate > 0) THEN Failed(o)
    ELSE [ok |-> TRUE, osc |-> Advance(o),
          sample |-> [wave |-> "square", theta |-> Theta(o, frequency, phaseOffset),
                      maxHarmonic |-> MaxHarmonic(o, frequency)]]

processSaw(o, frequency, phaseOffset) ==
    IF ~(o.currentSampleRate > 0) THEN Failed(o)
    ELSE [ok |-> TRUE, osc |-> Advance(o),
          sample |-> [wave |-> "saw", theta |-> Theta(o, frequency, phaseOffset),
                      maxHarmonic |-> MaxHarmonic(o, frequency)]]

processTriangle(o, frequency, phaseOffset) ==
    IF ~(o.currentSampleRate > 0) THEN Failed(o)
    ELSE [ok |-> TRUE, osc |-> Advance(o),
          sample |-> [wave |-> "triangle", theta |-> Theta(o, frequency, phaseOffset),
                      maxHarmonic |-> MaxHarmonic(o, frequency)]]

processImpulseTrain(o, frequency, phaseOffset) ==
    IF ~(o.currentSampleRate > 0) THEN Failed(o)
    ELSE [ok |-> TRUE, osc |-> Advance(o),
          sample |-> [wave |-> "impulseTrain", theta |-> Theta(o, frequency, phaseOffset),
                      maxHarmonic |-> MaxHarmonic(o, frequency)]]

\* ---- calls on the Oscillator synthWave
\* faulty variant: prepareToPlay asserts a positive rate
PrepareToPlayChecked(sampleRate) ==
    /\ ~aborted
    /\ lastOp' = [op |-> "prepareToPlay", sampleRate |-> sampleRate]
    /\ UNCHANGED <<out, tremolo, tremOut, meterVars, statelessVars>>
    /\ IF sampleRate > 0
          THEN /\ synthWave' = prepareToPlay(synthWave, sampleRate)
               /\ prepares' = IF prepares < 2 THEN prepares + 1 ELSE 2
               /\ callNo' = -1
               /\ UNCHANGED aborted
          ELSE /\ aborted' = TRUE
               /\ UNCHANGED <<synthWave, prepares, callNo>>

PrepareToPlay(sampleRate) ==
    /\ ~aborted
    /\ synthWave' = prepareToPlay(synthWave, sampleRate)
    /\ prepares' = IF prepares < 2 THEN prepares + 1 ELSE 2
    /\ callNo' = -1
    /\ lastOp' = [op |-> "prepareToPlay", sampleRate |-> sampleRate]
    /\ UNCHANGED <<aborted, out, tremolo, tremOut, meterVars, statelessVars>>

\* a generator call whose result is res
Generate(name, frequency, phaseOffset, res) ==
    /\ ~aborted
    /\ lastOp' = [op |-> name, frequency |-> frequency, phaseOffset |-> phaseOffset,
                  returned |-> res.ok]
    /\ synthWave' = res.osc
    /\ aborted' = ~res.ok
    /\ out' = IF res.ok THEN res.sample ELSE out
    /\ callNo' = IF res.ok THEN (callNo + 1) % synthWave.currentSampleRate ELSE callNo
    /\ UNCHANGED <<prepares, tremolo, tremOut, meterVars, statelessVars>>

ProcessSine(f, p) == Generate("processSine", f, p, processSine(synthWave, f, p))
ProcessSquare(f, p) == Generate("processSquare", f, p, processSquare(synthWave, f, p))
ProcessSaw(f, p) == Generate("processSaw", f, p, processSaw(synthWave, f, p))
ProcessTriangle(f, p) == Generate("processTriangle", f, p, processTriangle(synthWave, f, p))
ProcessImpulseTrain(f, p) ==
    Generate("processImpulseTrain", f, p, processImpulseTrain(synthWave, f, p))

(***************************************************************************)
(* tap::Tremolo.  amp and sample are in units of 1/2.                      *)
(***************************************************************************)
TremoloWaveType == {"Sine", "Saw", "Square", "Triangle"}
TremoloRates == {-1, 0, 2, 3}
TremoloFrequencies == {-1, 0, 5}
Amps == {-1, 0, 2, 3}
TremoloSamples == {-2, 1}

tremoloPrepareToPlay(t, sampleRate) ==
    [t EXCEPT !.currentSampleRate = sampleRate,
              !.modulator = prepareToPlay(@, sampleRate)]

setFrequency(t, freq) == [t EXCEPT !.frequency = freq]

setWaveType(t, type) == [t EXCEPT !.waveType = type]

\* the generator call getModulator makes; its std::abs is applied in process
getModulator(t) ==
    CASE t.waveType = "Sine" -> processSine(t.modulator, t.frequency, 0)
      [] t.waveType = "Saw" -> processSaw(t.modulator, t.frequency, 0)
      [] t.waveType = "Square" -> processSquare(t.modulator, t.frequency, 0)
      [] t.waveType = "Triangle" -> processTriangle(t.modulator, t.frequency, 0)

TremoloFailed(t) == [ok |-> FALSE, tremolo |-> t, output |-> "none"]

\* sample * (amp * getModulator ()), after the three assertions
TremoloReturn(t, sample, amp) ==
    LET m == getModulator(t)
    IN  IF ~m.ok THEN TremoloFailed(t)
        ELSE [ok |-> TRUE, tremolo |-> [t EXCEPT !.modulator = m.osc],
              output |-> [sample |-> sample, amp |-> amp,
                          modulator |-> [abs |-> m.sample]]]

\* faulty variant: the assertion on amp is dropped
processNoAmpAssert(t, sample, amp) ==
    IF ~(t.currentSampleRate > 0) THEN TremoloFailed(t)
    ELSE IF ~(t.frequency > 0) THEN TremoloFailed(t)
    ELSE TremoloReturn(t, sample, amp)

process(t, sample, amp) ==
    IF ~(amp >= 0 /\ amp <= 2) THEN TremoloFailed(t)
    ELSE IF ~(t.currentSampleRate > 0) THEN TremoloFailed(t)
    ELSE IF ~(t.frequency > 0) THEN TremoloFailed(t)
    ELSE TremoloReturn(t, sample, amp)

\* ---- calls on the Tremolo
TremoloPrepareToPlay(sampleRate) ==
    /\ ~aborted
    /\ tremolo' = tremoloPrepareToPlay(tremolo, sampleRate)
    /\ lastOp' = [op |-> "prepareToPlay", sampleRate |-> sampleRate]
    /\ UNCHANGED <<aborted, tremOut, synthWave, out, prepares, callNo, meterVars,
                   statelessVars>>

SetFrequency(freq) ==
    /\ ~aborted
    /\ tremolo' = setFrequency(tremolo, freq)
    /\ lastOp' = [op |-> "setFrequency", freq |-> freq]
    /\ UNCHANGED <<aborted, tremOut, synthWave, out, prepares, callNo, meterVars,
                   statelessVars>>

SetWaveType(type) ==
    /\ ~aborted
    /\ tremolo' = setWaveType(tremolo, type)
    /\ lastOp' = [op |-> "setWaveType", type |-> type]
    /\ UNCHANGED <<aborted, tremOut, synthWave, out, prepares, callNo, meterVars,
                   statelessVars>>

Process(sample, amp) ==
    LET res == process(tremolo, sample, amp)
    IN  /\ ~aborted
        /\ lastOp' = [op |-> "process", sample |-> sample, amp |-> amp,
                      returned |-> res.ok]
        /\ tremolo' = res.tremolo
        /\ aborted' = ~res.ok
        /\ tremOut' = IF res.ok THEN res.output ELSE tremOut
        /\ UNCHANGED <<synthWave, out, prepares, callNo, meterVars, statelessVars>>

SynthInit ==
    /\ synthWave = SynthWaveInit
    /\ out = "none"
    /\ prepares = 0
    /\ callNo = -1
    /\ tremolo = [modulator |-> SynthWaveInit, waveType |-> "Sine",
                  currentSampleRate |-> 0, frequency |-> 0]
    /\ tremOut = "none"

StatelessInit ==
    /\ msIn = <<0, 0>>
    /\ msCoded = "none"
    /\ msOut = "none"
    /\ cubicOut = "none"
    /\ fadeRamp = [i \in 0 .. MaxRamp - 1 |-> 0]
    /\ fadeType = "In"

InitMeter ==
    /\ aborted = FALSE
    /\ lastOp = [op |-> "none"]
    /\ MeterInit
    /\ StatelessInit
    /\ SynthInit

\* the Meter at rest, while another component is exercised
MeterIdle ==
    /\ peakVal = 0 /\ rmsVal = [sqrtOf |-> 0]
    /\ rmsWindow = [i \in 0 .. MaxWindow - 1 |-> 0]
    /\ index = 0 /\ sum = 0 /\ hist = <<>> /\ fixedW = 0 /\ calls = 0
    /\ zeroStart = TRUE
    /\ resetSeen = FALSE /\ maxSince = 0

InitStateless ==
    /\ aborted = FALSE
    /\ lastOp = [op |-> "none"]
    /\ MeterIdle
    /\ StatelessInit
    /\ SynthInit

InitOscillator ==
    /\ aborted = FALSE
    /\ lastOp = [op |-> "none"]
    /\ MeterIdle
    /\ StatelessInit
    /\ SynthInit

NextOscillator ==
    \/ \E r \in SampleRates : PrepareToPlay(r)
    \/ \E f \in Frequencies, p \in PhaseOffsets : ProcessSine(f, p)
    \/ \E f \in Frequencies, p \in PhaseOffsets : ProcessSquare(f, p)
    \/ \E f \in Frequencies, p \in PhaseOffsets : ProcessSaw(f, p)
    \/ \E f \in Frequencies, p \in PhaseOffsets : ProcessTriangle(f, p)
    \/ \E f \in Frequencies, p \in PhaseOffsets : ProcessImpulseTrain(f, p)

SpecOscillator == InitOscillator /\ [][NextOscillator]_vars

\* one Oscillator driven by the four additive generators only
NextAdditive ==
    \/ \E r \in SampleRates : PrepareToPlay(r)
    \/ \E f \in Frequencies, p \in PhaseOffsets : ProcessSquare(f, p)
    \/ \E f \in Frequencies, p \in PhaseOffsets : ProcessSaw(f, p)
    \/ \E f \in Frequencies, p \in PhaseOffsets : ProcessTriangle(f, p)
    \/ \E f \in Frequencies, p \in PhaseOffsets : ProcessImpulseTrain(f, p)

SpecAdditive == InitOscillator /\ [][NextAdditive]_vars

NextTremolo ==
    \/ \E r \in TremoloRates : TremoloPrepareToPlay(r)
    \/ \E f \in TremoloFrequencies : SetFrequency(f)
    \/ \E w \in TremoloWaveType : SetWaveType(w)
    \/ \E s \in TremoloSamples, a \in Amps : Process(s, a)

SpecTremolo == InitOscillator /\ [][NextTremolo]_vars

NextStateless ==
    \/ \E l \in StereoSamples, r \in StereoSamples : Encode(l, r)
    \/ Decode
    \/ \E x \in CubicSamples : ProcessCubic(x)
    \/ \E n \in 0 .. MaxRamp, d \in FadeTypes, c \in Curves : BuildRamp(n, d, c)

SpecStateless == InitStateless /\ [][NextStateless]_vars

\* the peak operations of a Meter, in any order
NextPeak ==
    \/ \E s \in Samples : UpdatePeakSignal(s)
    \/ Reset

SpecPeak == InitMeter /\ [][NextPeak]_vars

\* the RMS operation of a Meter, with any arguments
NextRms ==
    \/ \E s \in Samples, w \in WindowSizes : UpdateRms(s, w)

SpecRms == InitMeter /\ [][NextRms]_vars

(***************************************************************************)
(* Claims about the Meter                                                  *)
(***************************************************************************)
\* sum of the squares of the samples of q, in units of 1/4
RECURSIVE SumSq(_)
SumSq(q) == IF q = <<>> THEN 0 ELSE Head(q) * Head(q) + SumSq(Tail(q))

\* a full window of one fixed in-range windowSize has been observed by a Meter
\* that started zeroed; hist is then the windowSize most recent samples
FullWindowSeen ==
    /\ ~aborted
    /\ zeroStart
    /\ fixedW \in 1 .. MaxWindow
    /\ Len(hist) = fixedW

\* C1: from a zeroed Meter and with a fixed windowSize W, once W samples have
\* been observed getRms() is sqrt((sum of squares of the W most recent
\* samples) / W), also for non-integer samples.
\* sqrt (k) = sqrt (q / (4 W)) iff k >= 0 and 4 W k = q.
C1_RmsIsTrueRms ==
    FullWindowSeen =>
        /\ getRms.sqrtOf >= 0
        /\ 4 * fixedW * getRms.sqrtOf = SumSq(hist)

\* C2: getPeak() never decreases between two reset() calls, equals the maximum
\* of |sample| over the updatePeakSignal calls since the last reset(), and is
\* exactly 0 right after reset().
C2_PeakMonotoneMaxReset ==
    [][ /\ lastOp'.op = "reset" => getPeak' = 0
        /\ lastOp'.op = "updatePeakSignal" => getPeak' >= getPeak
        /\ resetSeen' => getPeak' = maxSince' ]_vars

C2_Witness ==
    /\ resetSeen
    /\ lastOp.op = "updatePeakSignal"
    /\ lastOp.sample < 0
    /\ getPeak = 2

C4_MidSideRoundTrip ==
    msOut # "none" => msOut = msIn

\* C5: buildRamp (N, In, curve) with 2 <= N <= 8192 and curve > 0 gives a strictly
\* increasing ramp that starts at 0.
C5_FadeInStrictlyIncreasing ==
    ( /\ lastOp.op = "buildRamp"
      /\ lastOp.numSamplesToFade >= 2
      /\ lastOp.numSamplesToFade <= rampSize
      /\ lastOp.fadeInOrOut = "In"
      /\ lastOp.curve > 0 ) =>
        /\ fadeRamp[0] = 0
        /\ \A i \in 0 .. lastOp.numSamplesToFade - 2 : fadeRamp[i] < fadeRamp[i + 1]

\* C6: the cubic soft clip returns x - x^3 / 3 (in units of 1/8, for x = n / 2:
\* 4 n - n^3 / 3).
C6_CubicIsSoftClip ==
    lastOp.op = "processCubic" =>
        3 * cubicOut = 12 * lastOp.sample - lastOp.sample * lastOp.sample * lastOp.sample

(***************************************************************************)
(* Claims about the Oscillator and the Tremolo                             *)
(***************************************************************************)
GeneratorOps == {"processSine", "processSquare", "processSaw", "processTriangle",
                 "processImpulseTrain"}
AdditiveOps == GeneratorOps \ {"processSine"}

\* C7 as claimed: prepareToPlay with sampleRate <= 0 fails and leaves the
\* sample rate and timeStep as they were.
C7_PrepareRejectsNonPositive ==
    [][ (lastOp'.op = "prepareToPlay" /\ lastOp'.sampleRate <= 0) =>
            /\ aborted'
            /\ UNCHANGED synthWave ]_vars

\* C7 as amended: prepareToPlay never fails; it stores any sampleRate and
\* 1 / sampleRate, and leaves the phase alone.  A stored rate <= 0 makes the
\* next generator call fail, returning nothing and changing nothing.
C7_PrepareStoresAnyRate ==
    [][ /\ lastOp'.op = "prepareToPlay" =>
            /\ ~aborted'
            /\ synthWave'.currentSampleRate = lastOp'.sampleRate
            /\ synthWave'.timeStep = Reciprocal(lastOp'.sampleRate)
            /\ synthWave'.currentTime = synthWave.currentTime
        /\ (lastOp'.op \in GeneratorOps /\ synthWave.currentSampleRate <= 0) =>
            /\ aborted'
            /\ ~lastOp'.returned
            /\ UNCHANGED synthWave ]_vars

C7_Witness ==
    /\ ~aborted
    /\ lastOp.op = "prepareToPlay"
    /\ lastOp.sampleRate < 0
    /\ synthWave.currentSampleRate < 0
    /\ synthWave.timeStep < 0

Audible(frequency) == frequency >= 20 /\ frequency <= 20000

\* C8 as claimed: on a prepared Oscillator, processSine with a frequency
\* outside [20, 20000] fails, returns no sample and leaves the phase alone.
C8_SineRejectsInaudible ==
    [][ ( /\ lastOp'.op = "processSine"
          /\ synthWave.currentSampleRate > 0
          /\ ~Audible(lastOp'.frequency) ) =>
            /\ aborted'
            /\ ~lastOp'.returned
            /\ synthWave'.currentTime = synthWave.currentTime ]_vars

\* C8 as amended: on a prepared Oscillator processSine succeeds for every
\* frequency, audible or not: it returns the sine sample of that frequency
\* and advances the phase by timeStep.
C8_SineAcceptsAnyFrequency ==
    [][ (lastOp'.op = "processSine" /\ synthWave.currentSampleRate > 0) =>
            /\ ~aborted'
            /\ lastOp'.returned
            /\ out'.wave = "sine"
            /\ out'.theta.frequency = lastOp'.frequency
            /\ synthWave'.currentTime =
                   FloatAdd(ResetTime(synthWave), synthWave.timeStep) ]_vars

C8_Witness ==
    /\ ~aborted
    /\ lastOp.op = "processSine"
    /\ lastOp.returned
    /\ lastOp.frequency > 20000
    /\ out.wave = "sine"
    /\ out.theta.frequency = lastOp.frequency
    /\ synthWave.currentTime > 0

\* the three conditions Tremolo::process asserts
TremoloReady(amp) ==
    /\ tremolo.currentSampleRate > 0
    /\ tremolo.frequency > 0
    /\ amp >= 0 /\ amp <= 2

\* C9: Tremolo::process returns an output only if the stored sample rate is
\* > 0, the stored frequency is > 0 and amp is in [0, 1]; otherwise it fails
\* and the embedded oscillator's phase is not advanced.
C9_TremoloProcessGuarded ==
    [][ lastOp'.op = "process" =>
            /\ lastOp'.returned => TremoloReady(lastOp'.amp)
            /\ ~TremoloReady(lastOp'.amp) =>
                  /\ aborted'
                  /\ ~lastOp'.returned
                  /\ tremOut' = tremOut
                  /\ tremolo'.modulator = tremolo.modulator ]_vars

C9_Witness ==
    /\ lastOp.op = "process"
    /\ lastOp.returned
    /\ lastOp.amp = 2
    /\ tremolo.waveType = "Saw"
    /\ tremOut.modulator.abs.wave = "saw"
    /\ tremolo.modulator.currentTime = One
    /\ tremOut.modulator.abs.theta.time > 0

\* a sample rate whose reciprocal and its multiples are exact in float
PowerOfTwo(n) == n \in {1, 2, 4, 8, 16}

\* C10 as claimed: with one prepareToPlay (N), the phase used by a square,
\* saw, triangle or impulse-train call is in [0, 1) and is 0 exactly on the
\* calls N apart (period N).  timeStep is taken as the float nearest 1 / N.
C10_PhasePeriodIsRate ==
    (lastOp.op \in AdditiveOps /\ lastOp.returned /\ prepares = 1) =>
        /\ out.theta.time >= 0
        /\ out.theta.time < One
        /\ out.theta.time = 0 <=> callNo = 0

\* C10 as amended: each such call uses the phase it finds, or 0 when that
\* phase has reached 1.0; the phase used is in [0, 1); the call leaves the
\* float sum of the phase used and timeStep.  When N is a power of two the
\* sums are exact and the phases used are 0, 1/N, ..., (N-1)/N with period N;
\* for other N the rounded sum can miss 1.0 and the period is not N.
C10_PhaseAdvanceAndWrap ==
    [][ (lastOp'.op \in AdditiveOps /\ lastOp'.returned) =>
            /\ out'.theta.time =
                   IF synthWave.currentTime >= One THEN 0 ELSE synthWave.currentTime
            /\ out'.theta.time >= 0
            /\ out'.theta.time < One
            /\ synthWave'.currentTime = FloatAdd(out'.theta.time, synthWave.timeStep)
            /\ (prepares' = 1 /\ PowerOfTwo(synthWave.currentSampleRate)) =>
                   out'.theta.time * synthWave.currentSampleRate = callNo' * One ]_vars

C10_Witness ==
    /\ lastOp.op = "processImpulseTrain"
    /\ lastOp.returned
    /\ prepares = 1
    /\ synthWave.currentSampleRate = 4
    /\ callNo = 3
    /\ 4 * out.theta.time = 3 * One
    /\ synthWave.currentTime = One

\* C11 as claimed: processSine does not wrap the phase at 1.0: each call on a
\* prepared Oscillator uses the phase it finds, also when that phase has
\* reached 1.0, and leaves the phase grown by timeStep.
C11_SineNeverWraps ==
    [][ (lastOp'.op = "processSine" /\ lastOp'.returned) =>
            /\ out'.theta.time = synthWave.currentTime
            /\ synthWave'.currentTime =
                   FloatAdd(synthWave.currentTime, synthWave.timeStep) ]_vars

\* C11 as amended: processSine wraps the phase at 1.0 like the other
\* generators: a call that finds the phase at 1.0 or above uses 0 and leaves
\* the phase at timeStep; any other call uses the phase it finds; the phase
\* used is always in [0, 1) and the phase left is the float sum of the phase
\* used and timeStep.
C11_SineWrapsAtOne ==
    [][ (lastOp'.op = "processSine" /\ lastOp'.returned) =>
            /\ out'.theta.time >= 0
            /\ out'.theta.time < One
            /\ synthWave.currentTime >= One =>
                   /\ out'.theta.time = 0
                   /\ synthWave'.currentTime = synthWave.timeStep
            /\ synthWave.currentTime < One =>
                   /\ out'.theta.time = synthWave.currentTime
                   /\ synthWave'.currentTime =
                          FloatAdd(synthWave.currentTime, synthWave.timeStep) ]_vars

\* a processSine call that was not the first since prepareToPlay used phase 0:
\* the two calls before it had brought the phase from 1/2 to 1.0
C11_Witness ==
    /\ ~aborted
    /\ lastOp.op = "processSine"
    /\ lastOp.returned
    /\ prepares = 2
    /\ synthWave.currentSampleRate = 4
    /\ callNo = 2
    /\ out.theta.time = 0
    /\ 4 * synthWave.currentTime = One

(***************************************************************************)
(* Claims about the Meter's ring buffer                                    *)
(***************************************************************************)
\* sum of window[i]^2 over i in [0, windowSize), in units of 1/4
RECURSIVE WindowSumSq(_, _)
WindowSumSq(window, windowSize) ==
    IF windowSize = 0 THEN 0
    ELSE window[windowSize - 1] * window[windowSize - 1]
             + WindowSumSq(window, windowSize - 1)

\* C12: with a fixed windowSize W from the initial state, the k-th updateRms
\* call writes its sample into slot (k-1) mod W, the write index wraps to 0
\* exactly on every W-th call, and right after each wrap the running sum
\* equals the sum of window[i]^2 over i in [0, W) of the live window.
C12_RingWrapAndRecompute ==
    [][ (lastOp'.op = "updateRms" /\ fixedW' \in 1 .. MaxWindow) =>
            /\ lastOp'.slot = calls
            /\ rmsWindow'[calls] = lastOp'.sample
            /\ (index' = 0) <=> (calls' = 0)
            /\ calls' = 0 => 4 * sum' = WindowSumSq(rmsWindow', fixedW') ]_vars

\* C13: for updateRms calls whose windowSize may differ from call to call, each
\* with 1 <= windowSize < 192000: the one slot the call reads and writes is the
\* write index it finds, which is in [0, 192000); the recomputation reads the
\* slots [0, windowSize) only; no other slot is written; and on return the
\* write index is in [0, windowSize) for that call's windowSize.
C13_RingIndexInBounds ==
    [][ ( /\ lastOp'.op = "updateRms"
          /\ lastOp'.windowSize >= 1
          /\ lastOp'.windowSize < maxWindowSize ) =>
            /\ ~aborted'
            /\ lastOp'.slot = index
            /\ lastOp'.slot \in 0 .. maxWindowSize - 1
            /\ lastOp'.windowSize - 1 \in 0 .. maxWindowSize - 1
            /\ \A i \in DOMAIN rmsWindow :
                   i # lastOp'.slot => rmsWindow'[i] = rmsWindow[i]
            /\ index' \in 0 .. lastOp'.windowSize - 1 ]_vars

\* a call with windowSize 1 found the write index at 2, left there by calls
\* with windowSize 3: it wrote slot 2 and returned with the index at 0
C13_Witness ==
    /\ ~aborted
    /\ lastOp.op = "updateRms"
    /\ fixedW = -1
    /\ lastOp.windowSize = 1
    /\ lastOp.slot = 2
    /\ rmsWindow[2] = lastOp.sample
    /\ index = 0

====
